---------------------------- MODULE Spec2Model ----------------------------
(***************************************************************************)
(* WhisperLink: the command bridge between the Electron main process and   *)
(* the python worker (electron/main.js), the renderer-side command client  *)
(* executeCommand (context/AuthContext.js, retrying variant) and the       *)
(* synchronisation engine and call handlers of context/AppContext.js.      *)
(*                                                                         *)
(* Time is discrete, one unit = 1000 ms.  Every setTimeout is a countdown  *)
(* that Tick decrements; Tick is disabled while a countdown is due, so a   *)
(* timer callback runs at the instant its delay has elapsed.               *)
(* The IPC hop renderer -> main -> renderer is taken as instantaneous.     *)
(***************************************************************************)
EXTENDS Integers, Sequences, FiniteSets, Bags, TLC

(* ---- bounds ---- *)
MaxProcs == 2        \* child processes spawned in the supervisor specification
MaxBridgeProcs == 1  \* child processes spawned in the bridge specification
MaxInvokes == 2      \* python-command calls
MaxCmds == 3         \* executeCommand calls AppContext has outstanding at once
MaxCallIds == 2      \* distinct call identifiers the worker reports
MaxList == 2         \* length of a list in a worker response
MaxHistory == 2      \* entries kept per conversation history
MaxAttempts == 6     \* the retries argument of executeCommand in the retry specification
MaxNotes == 3        \* notifications in the collection at once
MaxNow == 3          \* readings of Date.now() in the notification specification
MaxDuration == 2     \* the duration argument of addNotification (ms)
MaxWire == 6         \* bytes the worker has written that main.js has not read yet
MaxLogs == 1         \* lines that are no record which the worker writes

(* ---- program constants (units of 1000 ms) ---- *)
CommandTimeout == 15
GracePeriod == 5
RestartDelay == 1
RestartSettle == 3
BackoffCap == 5
DefaultRetries == 3
ProbeAttempts == 5   \* App.js: maxAttempts of the startup probe
RestartAfter == 3    \* App.js: attempts before the restart is tried

NoProc == 0
NoCode == -1
NoTimer == -1
NoResp == 0

Procs == 1..MaxProcs
Invokes == 1..MaxInvokes
Calls == 1..MaxInvokes
CallIds == {"c" \o ToString(i) : i \in 1..MaxCallIds}

VARIABLES
  pythonProcess,  \* main.js: the handle; NoProc is null
  spawned,        \* number of child processes spawn() has created
  procs,          \* per child process: OS state and the node ChildProcess flags
  killTimers,     \* the force-kill setTimeouts of stopPythonBackend: time left, and
                  \* (for reference only) the process the arming stop() signalled
  restart,        \* the restart-python-bridge call of the startup probe (App.js
                  \* requests one and awaits it): position in the async handler,
                  \* what its startPythonBackend() logged and the handle it left
  inv,            \* per python-command call: the closure state of the handler
                  \* (age: time since the call was issued, counted while its
                  \* timer is armed)
  calls,          \* per executeCommand call: position in the retry loop
  user,           \* AuthContext: TRUE while a user is logged in (user non-null)
  pollTimers,     \* AppContext: which of the two setInterval poll timers is set
  cmds,           \* AppContext: the executeCommand calls its handlers await,
                  \* in the order they were issued
  incomingCalls,  \* AppContext state: the incoming-call list
  activeCalls,    \* AppContext state: the active-call mirror
  activeVoiceCall,\* AppContext state: the displayed call (NoCall is null)
  acceptedCalls,  \* call identifiers for which acceptVoiceCall returned success
  messages,       \* AppContext state: history per conversation key
  connections,    \* AppContext state: the connection mirror
  previousConnections, \* AppContext: previousConnectionsRef.current
  notifications,  \* AppContext state: the notification collection
  noteTimers,     \* the setTimeouts armed by addNotification: the identifier
                  \* their callback captured and the time they fire at
  now,            \* Date.now(), in ms since the provider was mounted
  init,           \* App.js: per run of the init effect, its position and locals
  restartRequests,\* number of restartBridge() calls made so far
  isInitialized,  \* App.js state
  loading,        \* AuthContext state
  error,          \* AuthContext state: TRUE when an error message is set
  wire,           \* per child process: the bytes in its stdout pipe, written by
                  \* the worker and not yet handed to the 'data' listeners
  logged,         \* number of lines that are no record written so far
  seen            \* per python-command call: the bytes its responseHandler has
                  \* been handed since it was registered (history)

connVars == <<connections, previousConnections>>

noteVars == <<notifications, noteTimers, now>>

bootVars == <<init, restartRequests, isInitialized, loading, error>>

frameVars == <<wire, logged, seen>>

uiVars == <<connVars, noteVars, bootVars, frameVars, frameVars>>

appFrame == <<user, pollTimers, cmds, incomingCalls, activeCalls, activeVoiceCall,
              acceptedCalls, messages>>

appVars == <<user, pollTimers, cmds, incomingCalls, activeCalls, activeVoiceCall,
             acceptedCalls, messages, uiVars>>

mainVars == <<pythonProcess, spawned, procs, killTimers, restart, inv, calls>>

vars == <<pythonProcess, spawned, procs, killTimers, restart, inv, calls,
          user, pollTimers, cmds, incomingCalls, activeCalls, activeVoiceCall,
          acceptedCalls, messages, uiVars>>

(* ------------------------------------------------------------------------ *)
(* Framing: a response record for request r is the line  { r }  + newline;  *)
(* { r ! } is the record for request r that carries success: false, and     *)
(* { r t.. } the record that carries the text t.. (characters of a string   *)
(* value).  The worker writes bytes; a character outside ASCII is two.      *)
(* ------------------------------------------------------------------------ *)
Encode(r) == <<"{", ToString(r), "}", "\n">>

EncodeFailure(r) == <<"{", ToString(r), "!", "}", "\n">>

IsId(tok) == \E r \in Invokes : ToString(r) = tok
IdOf(tok) == CHOOSE r \in Invokes : ToString(r) = tok

RECURSIVE Split(_)
\* String.prototype.split('\n'): the pieces between newlines, the last one
\* being what follows the last newline (possibly empty).
Split(s) ==
  IF \A k \in 1..Len(s) : s[k] # "\n" THEN <<s>>
  ELSE LET k == CHOOSE j \in 1..Len(s) :
                   s[j] = "\n" /\ \A m \in 1..(j-1) : s[m] # "\n"
       IN  <<SubSeq(s, 1, k-1)>> \o Split(SubSeq(s, k+1, Len(s)))

RECURSIVE Trim(_)
Trim(s) ==
  IF s = <<>> THEN s
  ELSE IF Head(s) = " " THEN Trim(Tail(s))
  ELSE IF s[Len(s)] = " " THEN Trim(SubSeq(s, 1, Len(s)-1))
  ELSE s

\* line && line.startsWith('{')
StartsRecord(line) == line # <<>> /\ Head(line) = "{"

\* characters of a string value: a letter, e-acute, and U+FFFD, which
\* Buffer.toString() puts in the place of bytes that are not valid UTF-8
Replacement == "U+FFFD"
TextChars == {"a", "U+00E9", Replacement}

\* what stands between the request number and the closing brace
Payload(line) == SubSeq(line, 3, Len(line) - 1)

\* JSON.parse succeeds on the line
Parses(line) ==
  /\ Len(line) >= 3 /\ line[1] = "{" /\ IsId(line[2]) /\ line[Len(line)] = "}"
  /\ \/ Payload(line) = <<"!">>
     \/ \A k \in 1..Len(Payload(line)) : Payload(line)[k] \in TextChars
JSONparse(line) == IdOf(line[2])

\* the string value of the parsed record
TextOf(line) == IF Payload(line) = <<"!">> THEN <<>> ELSE Payload(line)

\* response.success of the parsed record
SuccessOf(line) == line[3] # "!"

\* The complete lines of the buffer (all pieces but the last), trimmed.
CompleteLines(buf) ==
  LET ls == Split(buf) IN [k \in 1..(Len(ls)-1) |-> Trim(ls[k])]

LastPiece(buf) == LET ls == Split(buf) IN ls[Len(ls)]

Decodable(line) == StartsRecord(line) /\ Parses(line)


(* ------------------------------------------------------------------------ *)
(* Small helpers                                                            *)
(* ------------------------------------------------------------------------ *)
Min(a, b) == IF a <= b THEN a ELSE b

RECURSIVE Pow2(_)
Pow2(n) == IF n = 0 THEN 1 ELSE 2 * Pow2(n - 1)

RECURSIVE SumOver(_, _)
SumOver(f, S) ==
  IF S = {} THEN 0
  ELSE LET x == CHOOSE y \in S : TRUE IN f[x] + SumOver(f, S \ {x})

Dec(t) == IF t > 0 THEN t - 1 ELSE t

(* ------------------------------------------------------------------------ *)
(* Initial state: module load, before app.whenReady                         *)
(* ------------------------------------------------------------------------ *)
FreshProc ==
  [alive |-> FALSE, killed |-> FALSE, exitCode |-> NoCode, closed |-> FALSE,
   signals |-> {}, errored |-> FALSE, inbox |-> {}]

FreshInvoke ==
  [state |-> "unused", err |-> "", proc |-> NoProc, dataL |-> FALSE,
   errL |-> FALSE, buffer |-> <<>>, isResolved |-> FALSE,
   timeoutId |-> NoTimer, response |-> NoResp, success |-> TRUE,
   text |-> <<>>, age |-> 0]

FreshCall ==
  [state |-> "idle", retries |-> 0, attempt |-> 0, cur |-> 0,
   delay |-> NoTimer]

NoTimers == [sync |-> FALSE, voice |-> FALSE]
NoCall == [call_id |-> "", status |-> "none"]
NoMessages == [k \in {} |-> <<>>]

\* React runs the init effect once, and a second time right after the
\* first in a development build (index.js renders under StrictMode)
EffectRuns == {1, 2}
Runs == 1..2

FreshInit == [pc |-> "idle", attempts |-> 0, restartAttempted |-> FALSE, failed |-> 0]

FreshRestart == [pc |-> "idle", timer |-> NoTimer, started |-> "", proc |-> NoProc]

Init ==
  /\ pythonProcess = NoProc
  /\ spawned = 0
  /\ procs = [p \in Procs |-> FreshProc]
  /\ killTimers = {}
  /\ restart = FreshRestart
  /\ inv = [i \in Invokes |-> FreshInvoke]
  /\ calls = [c \in Calls |-> FreshCall]
  /\ user = FALSE
  /\ pollTimers = NoTimers
  /\ cmds = EmptyBag
  /\ incomingCalls = <<>>
  /\ activeCalls = <<>>
  /\ activeVoiceCall = NoCall
  /\ acceptedCalls = {}
  /\ messages = NoMessages
  /\ connections = <<>>
  /\ previousConnections = <<>>
  /\ notifications = <<>>
  /\ noteTimers = {}
  /\ now = 0
  /\ init = [run \in Runs |-> FreshInit]
  /\ restartRequests = 0
  /\ isInitialized = FALSE
  /\ loading = FALSE
  /\ error = FALSE
  /\ wire = [p \in Procs |-> <<>>]
  /\ logged = 0
  /\ seen = [i \in Invokes |-> <<>>]

(* ------------------------------------------------------------------------ *)
(* Process Supervisor (main.js)                                             *)
(* ------------------------------------------------------------------------ *)
RunningInverted(h) ==
  h # NoProc /\ procs[h].killed /\ procs[h].exitCode = NoCode

\* pythonProcess && !pythonProcess.killed && pythonProcess.exitCode === null
Running(h) ==
  h # NoProc /\ ~procs[h].killed /\ procs[h].exitCode = NoCode

\* ChildProcess.kill(sig): delivers the signal and sets .killed only while
\* the child has not exited.
kill(ps, p, sig) ==
  IF ps[p].alive
  THEN [ps EXCEPT ![p].killed = TRUE, ![p].signals = @ \cup {sig}]
  ELSE ps

\* startPythonBackend(); spawnOk = FALSE is spawn() throwing into the catch.
\* The 2000 ms initialisation check only logs and is left out.
startPythonBackend(spawnOk) ==
  IF Running(pythonProcess)
  THEN UNCHANGED <<pythonProcess, spawned, procs>>
  ELSE IF spawnOk
  THEN /\ spawned' = spawned + 1
       /\ pythonProcess' = spawned + 1
       /\ procs' = [procs EXCEPT ![spawned + 1] = [FreshProc EXCEPT !.alive = TRUE]]
  ELSE /\ pythonProcess' = NoProc
       /\ UNCHANGED <<spawned, procs>>

\* The console message of a startPythonBackend() call.
StartMessage(spawnOk) ==
  IF Running(pythonProcess) THEN "already running"
  ELSE IF spawnOk THEN "starting" ELSE "spawn error"

\* What stopPythonBackend() leaves in procs, killTimers and pythonProcess.
StopProcs ==
  IF pythonProcess # NoProc /\ ~procs[pythonProcess].killed
  THEN kill(procs, pythonProcess, "SIGTERM")
  ELSE procs

StopTimers ==
  IF pythonProcess # NoProc /\ ~procs[pythonProcess].killed
  THEN killTimers \cup {[left |-> GracePeriod, armedFor |-> pythonProcess]}
  ELSE killTimers

StopHandleKept == pythonProcess

\* pythonProcess = null, the last statement of stopPythonBackend
StopHandle == NoProc

stopPythonBackend ==
  /\ procs' = StopProcs
  /\ killTimers' = StopTimers
  /\ pythonProcess' = StopHandle

\* app.whenReady / app 'activate'; at most `limit` children are spawned.
Start(limit) ==
  /\ \E spawnOk \in BOOLEAN : startPythonBackend(spawnOk /\ spawned < limit)
  /\ UNCHANGED <<killTimers, restart, inv, calls, appVars>>

\* app 'window-all-closed' / 'before-quit'
Stop ==
  /\ pythonProcess # NoProc
  /\ stopPythonBackend
  /\ UNCHANGED <<spawned, restart, inv, calls, appVars>>

\* The force-kill callback armed by stopPythonBackend; it reads the global
\* pythonProcess at the time it runs.
ForceKillTarget == pythonProcess

ForceKill ==
  /\ \E t \in killTimers : t.left = 0 /\ killTimers' = killTimers \ {t}
  /\ procs' = IF ForceKillTarget # NoProc /\ ~procs[ForceKillTarget].killed
              THEN kill(procs, ForceKillTarget, "SIGKILL")
              ELSE procs
  /\ UNCHANGED <<pythonProcess, spawned, restart, inv, calls, appVars>>

\* ipcMain.handle('restart-python-bridge'): stop, wait 1000 ms
RestartBegin ==
  /\ restart.pc \in {"idle", "done"}
  /\ stopPythonBackend
  /\ restart' = [FreshRestart EXCEPT !.pc = "wait", !.timer = RestartDelay]
  /\ UNCHANGED <<spawned, inv, calls, appVars>>

\* ... start, wait 3000 ms
RestartStart ==
  /\ restart.pc = "wait" /\ restart.timer = 0
  /\ \E spawnOk \in BOOLEAN :
        /\ startPythonBackend(spawnOk /\ spawned < MaxProcs)
        /\ restart' = [pc |-> "settle", timer |-> RestartSettle,
                       started |-> StartMessage(spawnOk /\ spawned < MaxProcs),
                       proc |-> pythonProcess']
  /\ UNCHANGED <<killTimers, inv, calls, appVars>>

\* ... return { success: true }
RestartDone ==
  /\ restart.pc = "settle" /\ restart.timer = 0
  /\ restart' = [restart EXCEPT !.pc = "done", !.timer = NoTimer]
  /\ UNCHANGED <<pythonProcess, spawned, procs, killTimers, inv, calls, appVars>>

(* ------------------------------------------------------------------------ *)
(* python-command handler (main.js)                                         *)
(* ------------------------------------------------------------------------ *)
\* cleanup() dereferences the global pythonProcess after clearTimeout: with
\* a null handle it throws a TypeError once the timer has been cleared.
CleanupThrows == pythonProcess = NoProc

\* cleanup(): clearTimeout, then removeListener on whatever process the
\* global handle refers to now.
cleanup(r) ==
  [r EXCEPT !.timeoutId = NoTimer, !.age = 0,
            !.dataL = IF pythonProcess = r.proc THEN FALSE ELSE @,
            !.errL = IF pythonProcess = r.proc THEN FALSE ELSE @]

\* The promise once settled.  Listeners that cleanup() left on a replaced
\* process return at once (isResolved), so the closure is not tracked further.
Settled(state, err, response) ==
  [FreshInvoke EXCEPT !.state = state, !.err = err, !.response = response,
                      !.isResolved = TRUE]

FirstDecodable(lines) ==
  CHOOSE k \in 1..Len(lines) :
     Decodable(lines[k]) /\ \A m \in 1..(k-1) : ~Decodable(lines[m])

SkipFails(r, buf) ==
  IF CompleteLines(buf) = <<>> THEN [r EXCEPT !.buffer = LastPiece(buf)]
  ELSE Settled("rejected", "parse error", NoResp)

\* no complete line of the buffer was decodable: a parse error is logged in
\* the inner catch, the loop ends, and the last piece is kept as the buffer
Skip(r, buf) == [r EXCEPT !.buffer = LastPiece(buf)]

\* responseHandler(data) of one pending call.  A TypeError thrown by
\* cleanup() lands in the inner catch, so the loop goes on and the call
\* stays unresolved with its timer cleared.
responseHandler(r, data) ==
  IF r.isResolved THEN r
  ELSE LET buf == r.buffer \o data
           lines == CompleteLines(buf)
       IN  IF \A k \in 1..Len(lines) : ~Decodable(lines[k])
           THEN Skip(r, buf)
           ELSE IF CleanupThrows
           THEN [cleanup(r) EXCEPT !.buffer = LastPiece(buf)]
           ELSE [Settled("resolved", "", JSONparse(lines[FirstDecodable(lines)]))
                   EXCEPT !.success = SuccessOf(lines[FirstDecodable(lines)]),
                          !.text = TextOf(lines[FirstDecodable(lines)])]

\* The timeout callback.
timeoutCallback(r) ==
  IF r.isResolved THEN [r EXCEPT !.timeoutId = NoTimer]
  ELSE IF CleanupThrows THEN cleanup(r)
  ELSE Settled("rejected", "timeout", NoResp)

TimeoutDelayOld == CommandTimeout - 5

\* The delay handed to setTimeout for the command timer.
TimeoutDelay == CommandTimeout

\* The body of the promise: availability checks, listeners, write, timer.
pythonCommand(writeThrows) ==
  IF pythonProcess = NoProc
  THEN Settled("rejected", "not available", NoResp)
  ELSE IF procs[pythonProcess].killed \/ procs[pythonProcess].exitCode # NoCode
  THEN Settled("rejected", "not running", NoResp)
  ELSE IF writeThrows
  THEN Settled("rejected", "send failed", NoResp)
  ELSE [FreshInvoke EXCEPT !.state = "pending", !.proc = pythonProcess,
                           !.dataL = TRUE, !.errL = TRUE,
                           !.timeoutId = TimeoutDelay]

(* ------------------------------------------------------------------------ *)
(* executeCommand (AuthContext, retrying variant)                           *)
(* ------------------------------------------------------------------------ *)
BackoffUncapped(attempt) == Pow2(attempt - 1)

\* Math.min(1000 * Math.pow(2, attempt - 1), 5000), in units of 1000 ms
Backoff(attempt) == Min(Pow2(attempt - 1), BackoffCap)

\* executeCommand has returned or thrown: its locals are gone.
Finished(c, state) ==
  IF state = "threw"
  THEN [FreshCall EXCEPT !.state = state, !.retries = c.retries, !.attempt = c.attempt]
  ELSE [FreshCall EXCEPT !.state = state]

ContinueRetriesRefusal(c, r) ==
  IF c.state # "awaiting" THEN c
  ELSE IF r.state = "resolved" /\ r.success THEN Finished(c, "returned")
  ELSE IF r.state \in {"resolved", "rejected"}
  THEN IF c.attempt = c.retries
       THEN Finished(c, "threw")
       ELSE [c EXCEPT !.state = "backoff", !.delay = Backoff(c.attempt)]
  ELSE c

ContinueFailFast(c, r) ==
  IF c.state # "awaiting" THEN c
  ELSE IF r.state = "resolved" THEN Finished(c, "returned")
  ELSE IF r.state = "rejected"
  THEN IF c.attempt = c.retries \/ r.err \in {"not available", "not running"}
       THEN Finished(c, "threw")
       ELSE [c EXCEPT !.state = "backoff", !.delay = Backoff(c.attempt)]
  ELSE c

\* The continuation of `await executePythonCommand` for one call, given the
\* state of the bridge call it awaits.
Continue(c, r) ==
  IF c.state # "awaiting" THEN c
  ELSE IF r.state = "resolved" THEN Finished(c, "returned")
  ELSE IF r.state = "rejected"
  THEN IF c.attempt = c.retries
       THEN Finished(c, "threw")
       ELSE [c EXCEPT !.state = "backoff", !.delay = Backoff(c.attempt)]
  ELSE c

AfterSettle(cs, invNew) ==
  [c \in Calls |-> IF cs[c].state = "awaiting" THEN Continue(cs[c], invNew[cs[c].cur])
                   ELSE cs[c]]

Used == Cardinality({i \in Invokes : inv[i].state # "unused"})

\* Attempts the running calls may still make.
Reserved ==
  SumOver([c \in Calls |-> IF calls[c].state \in {"awaiting", "backoff"}
                           THEN calls[c].retries - calls[c].attempt ELSE 0], Calls)

\* One attempt of call c: window.electronAPI.executePythonCommand
Attempt(c, cs, writeThrows) ==
  LET i == Used + 1
      r == pythonCommand(writeThrows)
  IN  /\ inv' = [inv EXCEPT ![i] = r]
      /\ procs' = IF r.state = "pending"
                  THEN [procs EXCEPT ![pythonProcess].inbox = @ \cup {i}]
                  ELSE procs
      /\ calls' = AfterSettle([cs EXCEPT ![c].state = "awaiting", ![c].cur = i,
                                         ![c].delay = NoTimer], inv')

executeCommand(c, retries, writeThrows) ==
  /\ calls[c].state = "idle"
  /\ \A d \in Calls : d < c => calls[d].state # "idle"
  /\ Used + Reserved + retries <= MaxInvokes
  /\ Attempt(c, [calls EXCEPT ![c].retries = retries, ![c].attempt = 1], writeThrows)
  /\ UNCHANGED <<pythonProcess, spawned, killTimers, restart, appVars>>

Retry(c, writeThrows) ==
  /\ calls[c].state = "backoff" /\ calls[c].delay = 0
  /\ Attempt(c, [calls EXCEPT ![c].attempt = @ + 1], writeThrows)
  /\ UNCHANGED <<pythonProcess, spawned, killTimers, restart, appVars>>

\* The 15000 ms timer of bridge call i fires.
Timeout(i) ==
  /\ inv[i].timeoutId = 0
  /\ inv' = [inv EXCEPT ![i] = timeoutCallback(inv[i])]
  /\ calls' = AfterSettle(calls, inv')
  /\ UNCHANGED <<pythonProcess, spawned, procs, killTimers, restart, appVars>>

(* ------------------------------------------------------------------------ *)
(* The worker process (environment)                                         *)
(* ------------------------------------------------------------------------ *)
\* stdout 'data': every responseHandler registered on p sees the chunk.
Deliver(p, data) ==
  [i \in Invokes |-> IF inv[i].proc = p /\ inv[i].dataL
                     THEN responseHandler(inv[i], data) ELSE inv[i]]

\* The worker answers request r with one response line.
WorkerRespond(p, r) ==
  /\ procs[p].alive /\ r \in procs[p].inbox
  /\ inv' = Deliver(p, Encode(r))
  /\ calls' = AfterSettle(calls, inv')
  /\ procs' = [procs EXCEPT ![p].inbox = @ \ {r}]
  /\ UNCHANGED <<pythonProcess, spawned, killTimers, restart, appVars>>

\* The worker answers request r with a line that carries success: false.
WorkerRefuses(p, r) ==
  /\ procs[p].alive /\ r \in procs[p].inbox
  /\ inv' = Deliver(p, EncodeFailure(r))
  /\ calls' = AfterSettle(calls, inv')
  /\ procs' = [procs EXCEPT ![p].inbox = @ \ {r}]
  /\ UNCHANGED <<pythonProcess, spawned, killTimers, restart, appVars>>

(* ---- the worker's stdout as a byte stream ---- *)
\* the UTF-8 bytes of a character
Utf8(ch) == IF ch = "U+00E9" THEN <<"c3", "a9">> ELSE <<ch>>

RECURSIVE Utf8Encode(_)
Utf8Encode(chars) ==
  IF chars = <<>> THEN <<>> ELSE Utf8(Head(chars)) \o Utf8Encode(Tail(chars))

RECURSIVE toString(_)
\* data.toString(): the UTF-8 decoding of one chunk, on its own; a byte
\* sequence that is not a whole character becomes U+FFFD, byte by byte
toString(bytes) ==
  IF bytes = <<>> THEN <<>>
  ELSE IF Head(bytes) = "c3" /\ Len(bytes) >= 2 /\ bytes[2] = "a9"
  THEN <<"U+00E9">> \o toString(SubSeq(bytes, 3, Len(bytes)))
  ELSE IF Head(bytes) \in {"c3", "a9"}
  THEN <<Replacement>> \o toString(Tail(bytes))
  ELSE <<Head(bytes)>> \o toString(Tail(bytes))

\* the string values the worker puts in a record
Texts == {<<"a">>, <<"U+00E9">>}

\* the response line for request r with string value text
EncodeText(r, text) == <<"{", ToString(r)>> \o text \o <<"}", "\n">>

\* complete lines that are no record: blank, not beginning a record, and
\* beginning one but not decodable
LogLines == {<<"\n">>, <<"l", "\n">>, <<"{", "l", "\n">>}

\* The worker writes the response line of request r into its stdout pipe.
WorkerWrites(p, r, text) ==
  /\ procs[p].alive /\ r \in procs[p].inbox
  /\ Len(wire[p]) + Len(Utf8Encode(EncodeText(r, text))) <= MaxWire
  /\ wire' = [wire EXCEPT ![p] = @ \o Utf8Encode(EncodeText(r, text))]
  /\ procs' = [procs EXCEPT ![p].inbox = @ \ {r}]
  /\ UNCHANGED <<pythonProcess, spawned, killTimers, restart, inv, calls, logged, seen,
                 connVars, noteVars, bootVars, appFrame>>

\* The worker writes a line that is no record.
WorkerLogs(p, line) ==
  /\ procs[p].alive /\ logged < MaxLogs
  /\ Len(wire[p]) + Len(line) <= MaxWire
  /\ wire' = [wire EXCEPT ![p] = @ \o line]
  /\ logged' = logged + 1
  /\ UNCHANGED <<mainVars, seen, connVars, noteVars, bootVars, appFrame>>

\* the responseHandlers registered on p that have not resolved
Listening(p) == {i \in Invokes : inv[i].proc = p /\ inv[i].dataL /\ ~inv[i].isResolved}

\* stdout 'data': the first n bytes of the pipe are read and emitted as one
\* chunk; every responseHandler appends data.toString() to its buffer
Data(p, n) ==
  /\ n \in 1..Len(wire[p])
  /\ inv' = Deliver(p, toString(SubSeq(wire[p], 1, n)))
  /\ calls' = AfterSettle(calls, inv')
  /\ seen' = [i \in Invokes |-> IF i \in Listening(p)
                                 THEN seen[i] \o SubSeq(wire[p], 1, n) ELSE seen[i]]
  /\ wire' = [wire EXCEPT ![p] = SubSeq(@, n + 1, Len(@))]
  /\ UNCHANGED <<pythonProcess, spawned, procs, killTimers, restart, logged,
                 connVars, noteVars, bootVars, appFrame>>

\* The child exits: with a code on its own, with a null code on a signal.
ProcExit(p) ==
  /\ procs[p].alive
  /\ procs' = [procs EXCEPT ![p].alive = FALSE, ![p].inbox = {},
                            ![p].exitCode = IF procs[p].signals = {} THEN 0 ELSE NoCode]
  /\ UNCHANGED <<pythonProcess, spawned, killTimers, restart, inv, calls, appVars>>

\* 'close' observer of startPythonBackend.  Nothing reads the ChildProcess
\* object of a closed child again, so its flags are dropped.
ProcClose(p) ==
  /\ p <= spawned /\ ~procs[p].alive /\ ~procs[p].closed
  /\ procs' = [procs EXCEPT ![p] = [FreshProc EXCEPT !.closed = TRUE]]
  /\ pythonProcess' = NoProc
  /\ UNCHANGED <<spawned, killTimers, restart, inv, calls, appVars>>

\* 'error' on the child: the observer of startPythonBackend runs first and
\* nulls the handle; the errorHandlers of the pending calls follow in
\* registration order, and the first unresolved one throws out of emit()
\* from cleanup(), after clearing its timer.
ErrorListeners(p) == {i \in Invokes : inv[i].proc = p /\ inv[i].errL /\ ~inv[i].isResolved}

ProcError(p) ==
  /\ p <= spawned /\ ~procs[p].closed /\ ~procs[p].errored
  /\ procs' = [procs EXCEPT ![p].errored = TRUE]
  /\ pythonProcess' = NoProc
  /\ inv' = IF ErrorListeners(p) = {} THEN inv
            ELSE LET i == CHOOSE j \in ErrorListeners(p) :
                              \A k \in ErrorListeners(p) : j <= k
                 IN  [inv EXCEPT ![i] = cleanup(inv[i])]
  /\ UNCHANGED <<spawned, killTimers, restart, calls, appVars>>

(* ------------------------------------------------------------------------ *)
(* Time                                                                     *)
(* ------------------------------------------------------------------------ *)
Due ==
  \/ \E t \in killTimers : t.left = 0
  \/ restart.timer = 0
  \/ \E i \in Invokes : inv[i].timeoutId = 0
  \/ \E c \in Calls : calls[c].delay = 0

Tick ==
  /\ ~Due
  /\ killTimers' = {[t EXCEPT !.left = @ - 1] : t \in killTimers}
  /\ restart' = [restart EXCEPT !.timer = Dec(@)]
  /\ inv' = [i \in Invokes |->
               [inv[i] EXCEPT !.timeoutId = Dec(@),
                              !.age = IF inv[i].timeoutId # NoTimer
                                      THEN @ + 1 ELSE @]]
  /\ calls' = [c \in Calls |->
                 [calls[c] EXCEPT !.delay = Dec(@)]]
  /\ UNCHANGED <<pythonProcess, spawned, procs, appVars>>

\* The bridge: commands, their timers and the worker, with the supervisor's
\* start and stop arriving at any time (which covers what the restart
\* handler does to the handle).
NextBridge ==
  \/ Start(MaxBridgeProcs)
  \/ Stop
  \/ ForceKill
  \/ \E c \in Calls, n \in 1..MaxInvokes, w \in BOOLEAN : executeCommand(c, n, w)
  \/ \E c \in Calls, w \in BOOLEAN : Retry(c, w)
  \/ \E i \in Invokes : Timeout(i)
  \/ \E p \in Procs, r \in Invokes : WorkerRespond(p, r)
  \/ \E p \in Procs : ProcExit(p)
  \/ \E p \in Procs : ProcClose(p)
  \/ \E p \in Procs : ProcError(p)
  \/ Tick

SpecBridge == Init /\ [][NextBridge]_vars

\* The bridge with a worker that also reports business errors.
NextPass ==
  \/ Start(MaxBridgeProcs)
  \/ Stop
  \/ ForceKill
  \/ \E c \in Calls, n \in 1..MaxInvokes, w \in BOOLEAN : executeCommand(c, n, w)
  \/ \E c \in Calls, w \in BOOLEAN : Retry(c, w)
  \/ \E i \in Invokes : Timeout(i)
  \/ \E p \in Procs, r \in Invokes : WorkerRespond(p, r)
  \/ \E p \in Procs, r \in Invokes : WorkerRefuses(p, r)
  \/ \E p \in Procs : ProcExit(p)
  \/ \E p \in Procs : ProcClose(p)
  \/ \E p \in Procs : ProcError(p)
  \/ Tick

SpecPass == Init /\ [][NextPass]_vars

\* Framing: one worker that stays up, commands of one attempt, and the
\* worker's output arriving in chunks cut at any byte.
NextFrame ==
  \/ Start(MaxBridgeProcs)
  \/ \E c \in Calls : executeCommand(c, 1, FALSE)
  \/ \E p \in Procs, r \in Invokes, text \in Texts : WorkerWrites(p, r, text)
  \/ \E p \in Procs, line \in LogLines : WorkerLogs(p, line)
  \/ \E p \in Procs, n \in 1..MaxWire : Data(p, n)
  \/ \E i \in Invokes : Timeout(i)
  \/ Tick

SpecFrame == Init /\ [][NextFrame]_vars

\* The supervisor: start, stop, restart, the force-kill timer and the child
\* processes' exit, close and error events.
NextSup ==
  \/ Start(MaxProcs)
  \/ Stop
  \/ ForceKill
  \/ RestartBegin
  \/ RestartStart
  \/ RestartDone
  \/ \E p \in Procs : ProcExit(p)
  \/ \E p \in Procs : ProcClose(p)
  \/ \E p \in Procs : ProcError(p)
  \/ Tick

SpecSup == Init /\ [][NextSup]_vars

TypeOK ==
  /\ pythonProcess \in 0..MaxProcs
  /\ spawned \in 0..MaxProcs
  /\ \A t \in killTimers : t.left \in 0..GracePeriod /\ t.armedFor \in Procs

(* ------------------------------------------------------------------------ *)
(* executeCommand on its own: the retry loop, with what each attempt does   *)
(* (resolve, or reject for any reason) as an input.                         *)
(* ------------------------------------------------------------------------ *)
AttemptOutcomes ==
  {Settled("resolved", "", 1), Settled("rejected", "timeout", NoResp),
   Settled("rejected", "not available", NoResp)}

\* executeCommand(command, args, retries): the loop is entered, attempt = 1
invoke(c, retries) ==
  /\ calls[c].state = "idle"
  /\ calls' = [calls EXCEPT ![c] = [FreshCall EXCEPT !.state = "awaiting",
                                                     !.retries = retries,
                                                     !.attempt = 1]]
  /\ UNCHANGED <<pythonProcess, spawned, procs, killTimers, restart, inv, appVars>>

\* the promise of executePythonCommand settles
attemptSettles(c, r) ==
  /\ calls[c].state = "awaiting"
  /\ calls' = [calls EXCEPT ![c] = Continue(calls[c], r)]
  /\ UNCHANGED <<pythonProcess, spawned, procs, killTimers, restart, inv, appVars>>

\* the delay promise resolves: attempt++ and the next try
nextAttempt(c) ==
  /\ calls[c].state = "backoff" /\ calls[c].delay = 0
  /\ calls' = [calls EXCEPT ![c].state = "awaiting", ![c].attempt = @ + 1,
                            ![c].delay = NoTimer]
  /\ UNCHANGED <<pythonProcess, spawned, procs, killTimers, restart, inv, appVars>>

NextRetry ==
  \/ \E c \in Calls, retries \in 1..MaxAttempts : invoke(c, retries)
  \/ \E c \in Calls, r \in AttemptOutcomes : attemptSettles(c, r)
  \/ \E c \in Calls : nextAttempt(c)
  \/ Tick

SpecRetry == Init /\ [][NextRetry]_vars


(* ------------------------------------------------------------------------ *)
(* AppContext: the synchronisation engine and the voice-call handlers.      *)
(* A handler that awaits executeCommand is two steps: the call (an entry is *)
(* appended to cmds) and the continuation that runs when the command        *)
(* returns or throws.  What a command returns is an input: the worker       *)
(* answers at any time, with any well-formed response.  This part of the    *)
(* model is untimed: an interval that is set may fire at any moment.        *)
(* ------------------------------------------------------------------------ *)
SeqsUpTo(S, n) == UNION {[1..m -> S] : m \in 0..n}

\* cmds is a bag: the calls outstanding, however they are interleaved
Issue(bag, cmd) == bag (+) SetToBag({cmd})
Settle(bag, cmd) == bag (-) SetToBag({cmd})
Outstanding == BagCardinality(cmds)

\* sequences over S without a repeated call identifier
Distinct(list) == \A i, j \in 1..Len(list) : list[i].call_id = list[j].call_id => i = j

CallIdsOf(list) == {list[i].call_id : i \in 1..Len(list)}

\* prev.filter(c => c.call_id !== callId)
WithoutCall(list, callId) == SelectSeq(list, LAMBDA c : c.call_id # callId)

PendingLists == SeqsUpTo([call_id : CallIds], MaxList)
ActiveLists ==
  {l \in SeqsUpTo([call_id : CallIds, status : {"active", "ringing"}], MaxCallIds) :
     Distinct(l)}

\* a response: success=false carries no payload
Responses(lists) ==
  {[success |-> TRUE, list |-> l] : l \in lists}
    \cup {[success |-> FALSE, list |-> <<>>]}

NewCmd(cmd, arg, len) ==
  [cmd |-> cmd, arg |-> arg, attempt |-> 1, phase |-> "sent", len |-> len]

Sent(op, cmd) == op \in DOMAIN cmds /\ op.cmd = cmd /\ op.phase = "sent"

\* the initial-load effect: loadContacts(); loadConnections()
InitialLoad(bag, follow) ==
  LET withContacts == IF "contacts" \in follow
                      THEN Issue(bag, NewCmd("get_contacts", "", 0)) ELSE bag
  IN  IF "sync" \in follow
      THEN Issue(withContacts, NewCmd("get_connections", "", 0))
      ELSE withContacts

\* setUser(user) after a successful login; the effects that depend on user
\* run: each poll effect arms its interval and the initial load calls
\* loadContacts and loadConnections (the specification follows the
\* intervals and the loads named in `follow`).
Login(follow) ==
  /\ ~user
  /\ Outstanding + Cardinality(follow \cap {"sync", "contacts"}) <= MaxCmds
  /\ user' = TRUE
  /\ pollTimers' = [sync |-> "sync" \in follow, voice |-> "voice" \in follow]
  /\ cmds' = InitialLoad(cmds, follow)
  /\ UNCHANGED <<mainVars, uiVars, incomingCalls, activeCalls, activeVoiceCall,
                 acceptedCalls, messages>>

\* setUser(null): the poll effects' cleanups clear the intervals and the
\* initial-load effect clears the message history and the connection mirror
\* (previousConnectionsRef is left as it is).
Logout ==
  /\ user
  /\ user' = FALSE
  /\ pollTimers' = NoTimers
  /\ messages' = NoMessages
  /\ connections' = <<>>
  /\ UNCHANGED <<mainVars, previousConnections, noteVars, bootVars, frameVars, cmds, incomingCalls,
                 activeCalls, activeVoiceCall, acceptedCalls>>

\* executeCommand: the attempt is rejected; it waits and retries unless it
\* was the last attempt, when it throws and the handler's catch runs (no
\* handler's catch changes the state modelled here).
executeCommandFails(op) ==
  /\ op \in DOMAIN cmds /\ op.phase = "sent"
  /\ cmds' = IF op.attempt = DefaultRetries
             THEN Settle(cmds, op)
             ELSE Issue(Settle(cmds, op), [op EXCEPT !.phase = "backoff"])
  /\ UNCHANGED <<mainVars, uiVars, user, pollTimers, incomingCalls, activeCalls,
                 activeVoiceCall, acceptedCalls, messages>>

\* executeCommand: the backoff delay is over, the next attempt is issued
executeCommandRetry(op) ==
  /\ op \in DOMAIN cmds /\ op.phase = "backoff"
  /\ cmds' = Issue(Settle(cmds, op),
                   [op EXCEPT !.phase = "sent", !.attempt = @ + 1])
  /\ UNCHANGED <<mainVars, uiVars, user, pollTimers, incomingCalls, activeCalls,
                 activeVoiceCall, acceptedCalls, messages>>

\* executeCommand throws: its attempts have all been rejected, and the
\* handler's catch runs.  The attempts are not followed one by one here: the
\* call is outstanding for as long as they take.
executeCommandThrows(op) ==
  /\ op \in DOMAIN cmds /\ op.phase = "sent"
  /\ cmds' = Settle(cmds, op)
  /\ UNCHANGED <<mainVars, uiVars, user, pollTimers, incomingCalls, activeCalls,
                 activeVoiceCall, acceptedCalls, messages>>

\* the interval callback of the voice poll effect
pollVoice ==
  /\ pollTimers.voice
  /\ Outstanding + 2 <= MaxCmds
  /\ cmds' = Issue(Issue(cmds, NewCmd("get_pending_calls", "", 0)),
                    NewCmd("get_active_calls", "", Len(activeCalls)))
  /\ UNCHANGED <<mainVars, uiVars, user, pollTimers, incomingCalls, activeCalls,
                 activeVoiceCall, acceptedCalls, messages>>

\* setIncomingCalls(prev => [...prev, ...newCalls])
MergePending(prev, fetched) ==
  prev \o SelectSeq(fetched, LAMBDA newCall : newCall.call_id \notin CallIdsOf(prev))

checkPendingCalls(op, result) ==
  /\ Sent(op, "get_pending_calls")
  /\ incomingCalls' = IF result.success /\ Len(result.list) > 0
                      THEN MergePending(incomingCalls, result.list)
                      ELSE incomingCalls
  /\ cmds' = Settle(cmds, op)
  /\ UNCHANGED <<mainVars, uiVars, user, pollTimers, activeCalls, activeVoiceCall,
                 acceptedCalls, messages>>

\* (result.calls || []).find(c => c.status === 'active')
FindActive(list) ==
  LET hits == SelectSeq(list, LAMBDA c : c.status = "active")
  IN IF hits = <<>> THEN NoCall ELSE Head(hits)

\* the displayed call after loadActiveCalls; len is activeCalls.length as the
\* callback that made the call had captured it
DisplayedAfter(list, len) ==
  IF FindActive(list) # NoCall THEN FindActive(list)
  ELSE IF len = 0 THEN NoCall
  ELSE activeVoiceCall

\* (loadActiveCalls depends on activeCalls.length: when the length changes
\* the poll effect runs again and replaces the interval by a new one)
loadActiveCalls(op, result) ==
  /\ Sent(op, "get_active_calls")
  /\ IF result.success
     THEN /\ activeCalls' = result.list
          /\ activeVoiceCall' = DisplayedAfter(result.list, op.len)
     ELSE UNCHANGED <<activeCalls, activeVoiceCall>>
  /\ cmds' = Settle(cmds, op)
  /\ UNCHANGED <<mainVars, uiVars, user, pollTimers, incomingCalls, acceptedCalls, messages>>

OkResponses == Responses({<<>>})

\* ChatArea: the dialog shows incomingCalls[0]; onAccept
acceptVoiceCall(callId) ==
  /\ incomingCalls # <<>> /\ callId = Head(incomingCalls).call_id
  /\ Outstanding < MaxCmds
  /\ cmds' = Issue(cmds, NewCmd("accept_voice_call", callId, 0))
  /\ UNCHANGED <<mainVars, uiVars, user, pollTimers, incomingCalls, activeCalls,
                 activeVoiceCall, acceptedCalls, messages>>

AcceptRemovesAlways(result) == TRUE

AcceptRemoves(result) == result.success

acceptVoiceCallReturns(op, result) ==
  /\ Sent(op, "accept_voice_call")
  /\ incomingCalls' = IF AcceptRemoves(result)
                      THEN WithoutCall(incomingCalls, op.arg)
                      ELSE incomingCalls
  /\ acceptedCalls' = IF result.success
                      THEN acceptedCalls \cup {op.arg}
                      ELSE acceptedCalls
  /\ cmds' = Settle(cmds, op)
  /\ UNCHANGED <<mainVars, uiVars, user, pollTimers, activeCalls, activeVoiceCall, messages>>

\* ChatArea: onReject of the dialog for incomingCalls[0]
rejectVoiceCall(callId) ==
  /\ incomingCalls # <<>> /\ callId = Head(incomingCalls).call_id
  /\ Outstanding < MaxCmds
  /\ cmds' = Issue(cmds, NewCmd("reject_voice_call", callId, 0))
  /\ UNCHANGED <<mainVars, uiVars, user, pollTimers, incomingCalls, activeCalls,
                 activeVoiceCall, acceptedCalls, messages>>

\* the removal follows the await inside the try: it runs for every response
rejectVoiceCallReturns(op, result) ==
  /\ Sent(op, "reject_voice_call")
  /\ incomingCalls' = WithoutCall(incomingCalls, op.arg)
  /\ cmds' = Settle(cmds, op)
  /\ UNCHANGED <<mainVars, uiVars, user, pollTimers, activeCalls, activeVoiceCall,
                 acceptedCalls, messages>>

\* ChatArea: showVoiceCall, and onEndCall of the call window
showVoiceCall ==
  activeVoiceCall # NoCall
    /\ activeVoiceCall.status \in {"active", "ringing", "connecting"}

endVoiceCall(callId) ==
  /\ showVoiceCall /\ callId = activeVoiceCall.call_id
  /\ Outstanding < MaxCmds
  /\ cmds' = Issue(cmds, NewCmd("end_voice_call", callId, 0))
  /\ UNCHANGED <<mainVars, uiVars, user, pollTimers, incomingCalls, activeCalls,
                 activeVoiceCall, acceptedCalls, messages>>

EndClearsAlways(result) == TRUE

EndClears(result) == result.success

endVoiceCallReturns(op, result) ==
  /\ Sent(op, "end_voice_call")
  /\ activeVoiceCall' = IF EndClears(result) THEN NoCall ELSE activeVoiceCall
  /\ cmds' = Settle(cmds, op)
  /\ UNCHANGED <<mainVars, uiVars, user, pollTimers, incomingCalls, activeCalls,
                 acceptedCalls, messages>>

\* The voice-call side of AppContext: the voice poll interval, the two
\* fetches it issues and the accept, reject and end handlers.
NextCalls ==
  \/ Login({"voice"})
  \/ Logout
  \/ pollVoice
  \/ \E op \in DOMAIN cmds : executeCommandThrows(op)
  \/ \E op \in DOMAIN cmds, result \in Responses(PendingLists) : checkPendingCalls(op, result)
  \/ \E op \in DOMAIN cmds, result \in Responses(ActiveLists) : loadActiveCalls(op, result)
  \/ \E callId \in CallIds : acceptVoiceCall(callId)
  \/ \E op \in DOMAIN cmds, result \in OkResponses : acceptVoiceCallReturns(op, result)
  \/ \E callId \in CallIds : rejectVoiceCall(callId)
  \/ \E op \in DOMAIN cmds, result \in OkResponses : rejectVoiceCallReturns(op, result)
  \/ \E callId \in CallIds : endVoiceCall(callId)
  \/ \E op \in DOMAIN cmds, result \in OkResponses : endVoiceCallReturns(op, result)

SpecCalls == Init /\ [][NextCalls]_vars

\* a get_active_calls or get_pending_calls command returns
ActiveCallsReturn ==
  \E op \in DOMAIN cmds, result \in Responses(ActiveLists) : loadActiveCalls(op, result)

PendingCallsReturn ==
  \E op \in DOMAIN cmds, result \in OkResponses : checkPendingCalls(op, result)

\* The displayed call under a session that lasts: the voice poll and its two
\* fetches.  The interval keeps firing and every command comes back.
NextDisplay ==
  \/ Login({"voice"})
  \/ pollVoice
  \/ \E op \in DOMAIN cmds : executeCommandThrows(op)
  \/ PendingCallsReturn
  \/ ActiveCallsReturn

SpecDisplay ==
  /\ Init /\ [][NextDisplay]_vars
  /\ WF_vars(pollVoice) /\ WF_vars(PendingCallsReturn) /\ WF_vars(ActiveCallsReturn)

(* ---- AppContext: messages ---- *)
Usernames == {"bob", "group_g1"}
GroupIds == {"g1"}

\* an envelope of a get_pending_messages response (the text is left out)
Envelopes ==
  {[peer_username |-> u, is_group |-> FALSE, group_id |-> ""] : u \in Usernames}
    \cup {[peer_username |-> u, is_group |-> TRUE, group_id |-> g] :
            u \in Usernames, g \in GroupIds}

MessageLists == SeqsUpTo(Envelopes, MaxList)

\* `group_${msg.group_id}`
GroupKey(groupId) == "group_" \o groupId

\* the key of messages an envelope is filed under
KeyOf(msg) == IF msg.is_group THEN GroupKey(msg.group_id) ELSE msg.peer_username

Received(msg) ==
  [type |-> "received", sender |-> msg.peer_username, group_id |-> msg.group_id]

SentEntry == [type |-> "sent", sender |-> "me", group_id |-> ""]

\* prev[key] || []
History(m, key) == IF key \in DOMAIN m THEN m[key] ELSE <<>>

\* {...prev, [key]: [...(prev[key] || []), entry]}
AppendTo(m, key, entry) ==
  [x \in DOMAIN m \cup {key} |->
     IF x = key THEN Append(History(m, key), entry) ELSE m[x]]

\* result.messages.forEach(msg => setMessages(prev => ...))
RECURSIVE AppendAll(_, _)
AppendAll(m, list) ==
  IF list = <<>> THEN m
  ELSE AppendAll(AppendTo(m, KeyOf(Head(list)), Received(Head(list))), Tail(list))

Fits(m) == \A key \in DOMAIN m : Len(m[key]) <= MaxHistory

\* the interval callback of the connections and messages poll effect
pollSync ==
  /\ pollTimers.sync
  /\ Outstanding + 2 <= MaxCmds
  /\ cmds' = Issue(Issue(cmds, NewCmd("get_connections", "", 0)),
                    NewCmd("get_pending_messages", "", 0))
  /\ UNCHANGED <<mainVars, uiVars, user, pollTimers, incomingCalls, activeCalls,
                 activeVoiceCall, acceptedCalls, messages>>

ConnectionLists == SeqsUpTo([peer_username : Usernames], MaxList)

\* list.map(c => c.peer_username), as the set .includes() searches
PeersOf(list) == {list[i].peer_username : i \in 1..Len(list)}

HasNewConnectionsOnChange(newConnections, prev) ==
  PeersOf(newConnections) # PeersOf(prev)

\* newConnectionUsernames.some(u => !previousConnectionUsernames.includes(u))
HasNewConnections(newConnections, prev) ==
  \E username \in PeersOf(newConnections) : username \notin PeersOf(prev)

ConnectionsFetchedAlways(result) == TRUE

\* if (result.success) of loadConnections
ConnectionsFetched(result) == result.success

\* loadConnections after its await: the mirror is replaced, loadContacts is
\* called (it is not awaited) when a new peer shows, the ref is updated
loadConnections(op, result) ==
  /\ Sent(op, "get_connections")
  /\ IF ConnectionsFetched(result)
     THEN /\ connections' = result.list
          /\ previousConnections' = result.list
          /\ cmds' = IF HasNewConnections(result.list, previousConnections)
                     THEN Issue(Settle(cmds, op), NewCmd("get_contacts", "", 0))
                     ELSE Settle(cmds, op)
     ELSE /\ cmds' = Settle(cmds, op)
          /\ UNCHANGED <<connections, previousConnections>>
  /\ UNCHANGED <<mainVars, noteVars, bootVars, frameVars, user, pollTimers, incomingCalls, activeCalls,
                 activeVoiceCall, acceptedCalls, messages>>

\* loadContacts after its await (the contact list it fills is not part of
\* this model)
loadContacts(op, result) ==
  /\ Sent(op, "get_contacts")
  /\ cmds' = Settle(cmds, op)
  /\ UNCHANGED <<mainVars, uiVars, user, pollTimers, incomingCalls, activeCalls,
                 activeVoiceCall, acceptedCalls, messages>>

checkPendingMessages(op, result) ==
  /\ Sent(op, "get_pending_messages")
  /\ messages' = IF result.success /\ Len(result.list) > 0
                 THEN AppendAll(messages, result.list)
                 ELSE messages
  /\ Fits(messages')
  /\ cmds' = Settle(cmds, op)
  /\ UNCHANGED <<mainVars, uiVars, user, pollTimers, incomingCalls, activeCalls,
                 activeVoiceCall, acceptedCalls>>

\* ChatWindow: the logged-in user sends to the peer of the open chat
sendMessage(peerUsername) ==
  /\ user
  /\ Outstanding < MaxCmds
  /\ cmds' = Issue(cmds, NewCmd("send_message", peerUsername, 0))
  /\ UNCHANGED <<mainVars, uiVars, user, pollTimers, incomingCalls, activeCalls,
                 activeVoiceCall, acceptedCalls, messages>>

SendAppendsFirst(m, key) ==
  [x \in DOMAIN m \cup {key} |->
     IF x = key THEN <<SentEntry>> \o History(m, key) ELSE m[x]]

SendAppends(m, key) == AppendTo(m, key, SentEntry)

sendMessageReturns(op, result) ==
  /\ Sent(op, "send_message")
  /\ messages' = IF result.success THEN SendAppends(messages, op.arg) ELSE messages
  /\ Fits(messages')
  /\ cmds' = Settle(cmds, op)
  /\ UNCHANGED <<mainVars, uiVars, user, pollTimers, incomingCalls, activeCalls,
                 activeVoiceCall, acceptedCalls>>

\* The messaging side of AppContext: the connections and messages poll
\* interval, its two fetches and sendMessage.
NextMsgs ==
  \/ Login({"sync"})
  \/ Logout
  \/ pollSync
  \/ \E op \in DOMAIN cmds : executeCommandThrows(op)
  \/ \E op \in DOMAIN cmds, result \in OkResponses : loadConnections(op, result)
  \/ \E op \in DOMAIN cmds, result \in Responses(MessageLists) : checkPendingMessages(op, result)
  \/ \E peerUsername \in Usernames : sendMessage(peerUsername)
  \/ \E op \in DOMAIN cmds, result \in OkResponses : sendMessageReturns(op, result)

SpecMsgs == Init /\ [][NextMsgs]_vars

\* The session and the connections and messages poll, with the attempts of
\* executeCommand followed one by one.
NextPoll ==
  \/ Login({"sync"})
  \/ Logout
  \/ pollSync
  \/ \E op \in DOMAIN cmds : executeCommandFails(op)
  \/ \E op \in DOMAIN cmds : executeCommandRetry(op)
  \/ \E op \in DOMAIN cmds, result \in OkResponses : loadConnections(op, result)
  \/ \E op \in DOMAIN cmds, result \in Responses(MessageLists) : checkPendingMessages(op, result)

SpecPoll == Init /\ [][NextPoll]_vars

\* The connection mirror: the initial load, the poll and the contact-list
\* refresh; the message fetch is followed with empty results only.
NextConn ==
  \/ Login({"sync", "contacts"})
  \/ Logout
  \/ pollSync
  \/ \E op \in DOMAIN cmds : executeCommandThrows(op)
  \/ \E op \in DOMAIN cmds, result \in Responses(ConnectionLists) : loadConnections(op, result)
  \/ \E op \in DOMAIN cmds, result \in OkResponses : loadContacts(op, result)
  \/ \E op \in DOMAIN cmds, result \in OkResponses : checkPendingMessages(op, result)

SpecConn == Init /\ [][NextConn]_vars

\* the envelope lists without a group message
DirectLists == {l \in MessageLists : \A i \in 1..Len(l) : ~l[i].is_group}

\* the responses with at most one entry
Short(lists) == Responses({l \in lists : Len(l) <= 1})

\* The four poll fetches together, with responses of at most one entry.
NextFetch ==
  \/ Login({"sync", "voice"})
  \/ Logout
  \/ pollSync
  \/ pollVoice
  \/ \E op \in DOMAIN cmds : executeCommandThrows(op)
  \/ \E op \in DOMAIN cmds, result \in Short(ConnectionLists) : loadConnections(op, result)
  \/ \E op \in DOMAIN cmds, result \in OkResponses : loadContacts(op, result)
  \/ \E op \in DOMAIN cmds, result \in Short(DirectLists) : checkPendingMessages(op, result)
  \/ \E op \in DOMAIN cmds, result \in Short(PendingLists) : checkPendingCalls(op, result)
  \/ \E op \in DOMAIN cmds, result \in Short(ActiveLists) : loadActiveCalls(op, result)

SpecFetch == Init /\ [][NextFetch]_vars

(* ------------------------------------------------------------------------ *)
(* AppContext: notifications.  Any handler may call addNotification, so the *)
(* calls arrive at any time.  Time here is counted in ms, the resolution of *)
(* Date.now(); any number of calls fit between two readings.                *)
(* ------------------------------------------------------------------------ *)
NoteTexts == {"a"}
Durations == 1..MaxDuration

\* the notification object (type and timestamp add nothing to id and
\* message); duration is the argument its timeout was armed with
Notification(message, duration) ==
  [id |-> now, message |-> message, duration |-> duration]

RemoveOlder(list, id) == SelectSeq(list, LAMBDA n : n.id > id)

\* prev.filter(n => n.id !== id)
RemoveById(list, id) == SelectSeq(list, LAMBDA n : n.id # id)

\* the delay handed to setTimeout
Lifetime(duration) == duration

addNotification(message, duration) ==
  /\ Len(notifications) < MaxNotes
  /\ notifications' = Append(notifications, Notification(message, duration))
  /\ noteTimers' = noteTimers \cup {[id |-> now, at |-> now + Lifetime(duration)]}
  /\ UNCHANGED <<mainVars, connVars, bootVars, frameVars, now, user, pollTimers, cmds, incomingCalls,
                 activeCalls, activeVoiceCall, acceptedCalls, messages>>

\* Sidebar: the close button of a notification; also called for an
\* identifier that is no longer shown
removeNotification(id) ==
  /\ notifications' = RemoveById(notifications, id)
  /\ UNCHANGED <<mainVars, connVars, bootVars, frameVars, noteTimers, now, user, pollTimers, cmds,
                 incomingCalls, activeCalls, activeVoiceCall, acceptedCalls, messages>>

\* the timeout callback armed by addNotification
expire(t) ==
  /\ t \in noteTimers /\ t.at = now
  /\ notifications' = RemoveById(notifications, t.id)
  /\ noteTimers' = noteTimers \ {t}
  /\ UNCHANGED <<mainVars, connVars, bootVars, frameVars, now, user, pollTimers, cmds, incomingCalls,
                 activeCalls, activeVoiceCall, acceptedCalls, messages>>

\* one ms passes; a timeout that is due runs first
ClockTick ==
  /\ now < MaxNow
  /\ \A t \in noteTimers : t.at # now
  /\ now' = now + 1
  /\ UNCHANGED <<mainVars, connVars, bootVars, frameVars, notifications, noteTimers, user, pollTimers,
                 cmds, incomingCalls, activeCalls, activeVoiceCall, acceptedCalls,
                 messages>>

NextNotes ==
  \/ \E message \in NoteTexts, duration \in Durations : addNotification(message, duration)
  \/ \E id \in 0..MaxNow : removeNotification(id)
  \/ \E t \in noteTimers : expire(t)
  \/ ClockTick

SpecNotes == Init /\ [][NextNotes]_vars

(* ------------------------------------------------------------------------ *)
(* App.js: the init effect (startup probe) and checkAuthStatus.  A wait and *)
(* the call that follows it are one step; what a ping, the restart request  *)
(* and get_current_user come back with is an input.                         *)
(* ------------------------------------------------------------------------ *)
\* the run moves on to r: checkAuthStatus starts with setLoading(true); the
\* end of init is setIsInitialized(true)
Goes(run, r) ==
  /\ init' = [init EXCEPT ![run] = r]
  /\ loading' = IF r.pc = "auth" THEN TRUE ELSE loading
  /\ isInitialized' = IF r.pc = "done" THEN TRUE ELSE isInitialized

\* the while condition, and attempts++ of the next iteration
NextIteration(r) ==
  IF r.attempts < ProbeAttempts
  THEN [r EXCEPT !.pc = "probe", !.attempts = @ + 1]
  ELSE [r EXCEPT !.pc = "done"]

\* the effect runs: init() is called n times
mount(n) ==
  /\ \A run \in Runs : init[run].pc = "idle"
  /\ init' = [run \in Runs |->
                IF run <= n THEN [FreshInit EXCEPT !.pc = "probe", !.attempts = 1]
                ELSE init[run]]
  /\ UNCHANGED <<mainVars, connVars, noteVars, frameVars, restartRequests, isInitialized,
                 loading, error, appFrame>>

\* !restartAttempted && attempts >= 3
RestartDue(r) == ~r.restartAttempted /\ r.attempts >= RestartAfter

\* the branch taken on the value of bridgeReady
AfterPing(run, ok) ==
  LET r == [init[run] EXCEPT !.failed = IF ok THEN @ ELSE @ + 1]
  IN  IF ok
      THEN Goes(run, [r EXCEPT !.pc = "auth"]) /\ UNCHANGED restartRequests
      ELSE IF RestartDue(r)
      THEN /\ Goes(run, [r EXCEPT !.pc = "restart", !.restartAttempted = TRUE])
           /\ restartRequests' = restartRequests + 1
      ELSE Goes(run, NextIteration(r)) /\ UNCHANGED restartRequests

\* bridgeReady = await pingBridge(), and the branch taken on its value
pingBridge(run, ok) ==
  /\ init[run].pc = "probe"
  /\ AfterPing(run, ok)
  /\ UNCHANGED <<mainVars, connVars, noteVars, frameVars, error, appFrame>>

\* restartSuccess = await restartBridge()
restartBridgeReturns(run, restartSuccess) ==
  /\ init[run].pc = "restart"
  /\ Goes(run, IF restartSuccess THEN [init[run] EXCEPT !.pc = "reprobe"]
                ELSE NextIteration(init[run]))
  /\ UNCHANGED <<mainVars, connVars, noteVars, frameVars, restartRequests, error, appFrame>>

\* the end of the iteration after the ping that follows a restart
AfterSecondPing(run, ok) ==
  LET r == [init[run] EXCEPT !.failed = IF ok THEN @ ELSE @ + 1]
  IN  /\ Goes(run, IF ok THEN [r EXCEPT !.pc = "auth"] ELSE NextIteration(r))
      /\ UNCHANGED restartRequests

\* the ping that follows a successful restart
pingAfterRestart(run, ok) ==
  /\ init[run].pc = "reprobe"
  /\ AfterSecondPing(run, ok)
  /\ UNCHANGED <<mainVars, connVars, noteVars, frameVars, error, appFrame>>

\* what `await executeCommand('get_current_user', {}, 2)` comes to
AuthOutcomes == {"user", "no user", "not success", "throws"}

AuthErrorShown(outcome) == IF outcome = "throws" THEN TRUE ELSE error

\* the error state after checkAuthStatus: setError(null) in the catch
AuthError(outcome) == IF outcome = "throws" THEN FALSE ELSE error

\* checkAuthStatus after its await, and the end of init
checkAuthStatusReturns(run, outcome) ==
  /\ init[run].pc = "auth"
  /\ user' = (outcome = "user")
  /\ error' = AuthError(outcome)
  /\ init' = [init EXCEPT ![run].pc = "done"]
  /\ loading' = FALSE
  /\ isInitialized' = TRUE
  /\ UNCHANGED <<mainVars, connVars, noteVars, frameVars, restartRequests, pollTimers, cmds,
                 incomingCalls, activeCalls, activeVoiceCall, acceptedCalls, messages>>

\* login: the command fails or returns success=false; setError(message)
loginFails ==
  /\ isInitialized /\ ~loading /\ ~user
  /\ error' = TRUE
  /\ UNCHANGED <<mainVars, connVars, noteVars, frameVars, init, restartRequests, isInitialized,
                 loading, appFrame>>

NextStartup ==
  \/ \E n \in EffectRuns : mount(n)
  \/ \E run \in Runs, ok \in BOOLEAN : pingBridge(run, ok)
  \/ \E run \in Runs, restartSuccess \in BOOLEAN : restartBridgeReturns(run, restartSuccess)
  \/ \E run \in Runs, ok \in BOOLEAN : pingAfterRestart(run, ok)
  \/ \E run \in Runs, outcome \in AuthOutcomes : checkAuthStatusReturns(run, outcome)
  \/ loginFails
  \/ Login({})

SpecStartup == Init /\ [][NextStartup]_vars

(* ---- the init effect over the bridge ---- *)
\* One run of the init effect, with its pings going through executeCommand
\* and the python-command handler and its restart request through the
\* restart handler.  The waits of init between its calls are left out.
Probe == 1

\* pingBridge: executeCommand('ping', {}, 1)
PingSent(writeThrows) ==
  /\ init[Probe].pc \in {"probe", "reprobe"}
  /\ executeCommand(Probe, 1, writeThrows)

\* pingBridge returns: result && result.success, or false from its catch
PingSettled ==
  /\ calls[Probe].state \in {"returned", "threw"}
  /\ LET ok == calls[Probe].state = "returned"
                  /\ \A i \in Invokes : inv[i].state = "resolved" => inv[i].success
     IN  IF init[Probe].pc = "probe"
         THEN AfterPing(Probe, ok) ELSE AfterSecondPing(Probe, ok)
  /\ calls' = [calls EXCEPT ![Probe] = FreshCall]
  /\ inv' = [i \in Invokes |-> IF inv[i].state \in {"resolved", "rejected"}
                               THEN FreshInvoke ELSE inv[i]]
  /\ UNCHANGED <<pythonProcess, spawned, procs, killTimers, restart, connVars, noteVars,
                 frameVars, error, appFrame>>

\* restartBridge: window.electronAPI.restartPythonBridge()
RestartRequested ==
  /\ init[Probe].pc = "restart" /\ restart.pc = "idle"
  /\ RestartBegin

\* the restart handler has returned { success: true }
RestartReturned ==
  /\ restart.pc = "done"
  /\ restartBridgeReturns(Probe, TRUE)

AuthChecked == \E outcome \in AuthOutcomes : checkAuthStatusReturns(Probe, outcome)

NextProbe ==
  \/ Start(MaxProcs)
  \/ mount(1)
  \/ \E w \in BOOLEAN : PingSent(w)
  \/ PingSettled
  \/ RestartRequested
  \/ RestartStart
  \/ RestartDone
  \/ RestartReturned
  \/ AuthChecked
  \/ ForceKill
  \/ \E i \in Invokes : Timeout(i)
  \/ \E p \in Procs, r \in Invokes : WorkerRespond(p, r)
  \/ \E p \in Procs, r \in Invokes : WorkerRefuses(p, r)
  \/ \E p \in Procs : ProcExit(p)
  \/ \E p \in Procs : ProcClose(p)
  \/ \E p \in Procs : ProcError(p)
  \/ Tick

\* Time passes and due timers fire; the renderer and the main process run
\* their continuations.  The worker owes nothing.
SpecProbe ==
  /\ Init /\ [][NextProbe]_vars
  /\ WF_vars(mount(1)) /\ WF_vars(\E w \in BOOLEAN : PingSent(w)) /\ WF_vars(PingSettled)
  /\ WF_vars(RestartRequested) /\ WF_vars(RestartStart) /\ WF_vars(RestartDone)
  /\ WF_vars(RestartReturned) /\ WF_vars(AuthChecked) /\ WF_vars(ForceKill)
  /\ WF_vars(\E i \in Invokes : Timeout(i)) /\ WF_vars(Tick)

(* ------------------------------------------------------------------------ *)
(* Properties                                                               *)
(* ------------------------------------------------------------------------ *)
Issued(i) == inv[i].state = "unused" /\ inv'[i].state # "unused"
Unavailable(r) == r.state = "rejected" /\ r.err \in {"not available", "not running"}
Alive == {p \in Procs : procs[p].alive}

\* C1: with one response line per request, every resolved caller holds the
\* response produced for its own request.
C1_OwnResponse ==
  \A i \in Invokes : inv[i].state = "resolved" => inv[i].response = i

\* C2: at most one spawned worker process is alive at any instant.
C2_AtMostOneAlive == Cardinality(Alive) <= 1

\* C3: no call is left suspended forever: a call is never unsettled with
\* its timer gone on a worker that has closed (no data, error or timer
\* event can reach it any more).
C3_NeverSuspendedForever ==
  \A i \in Invokes :
    ~(inv[i].state = "pending" /\ inv[i].timeoutId = NoTimer
      /\ procs[inv[i].proc].closed)

\* C4: once restart() has resolved, while the worker it spawned has not
\* exited, has not raised an error and has not been stopped, the handle
\* refers to it and it is live.
C4_RestartedWorkerReachable ==
  (/\ restart.pc = "done" /\ restart.started = "starting"
   /\ procs[restart.proc].alive
   /\ ~procs[restart.proc].errored
   /\ "SIGTERM" \notin procs[restart.proc].signals)
  => (/\ pythonProcess = restart.proc
      /\ ~procs[restart.proc].killed
      /\ procs[restart.proc].exitCode = NoCode)

\* C5: when the grace period of a stop() elapses, the process that stop()
\* signalled receives SIGKILL if it has not exited, and nothing is
\* force-killed if it has.
C5_ForceKillAfterGrace ==
  [][\A t \in killTimers :
       (t.left = 0 /\ t \notin killTimers') =>
          IF procs[t.armedFor].alive
          THEN "SIGKILL" \in procs'[t.armedFor].signals
          ELSE procs' = procs]_vars

\* C6: stop() and the observed close or error of a worker leave the handle
\* absent; it stays absent until a spawn; a command issued while it is
\* absent is rejected as not available, writes nothing and registers no
\* listener or timer.
C6_AbsentHandleFailsFast ==
  [][/\ \A p \in Procs :
          (\/ "SIGTERM" \in procs'[p].signals \ procs[p].signals
           \/ procs'[p].closed /\ ~procs[p].closed
           \/ procs'[p].errored /\ ~procs[p].errored) => pythonProcess' = NoProc
     /\ (pythonProcess = NoProc /\ spawned' = spawned) => pythonProcess' = NoProc
     /\ \A i \in Invokes :
          (Issued(i) /\ pythonProcess = NoProc) =>
             /\ inv'[i].state = "rejected" /\ inv'[i].err = "not available"
             /\ ~inv'[i].dataL /\ ~inv'[i].errL /\ inv'[i].timeoutId = NoTimer
             /\ procs' = procs]_vars

C6_Witness ==
  /\ pythonProcess = NoProc
  /\ \E p \in Procs : "SIGTERM" \in procs[p].signals
  /\ \E i \in Invokes : inv[i].err = "not available"

\* C7 (as stated): a call whose attempt was rejected because no worker is
\* running has failed at once: it is not waiting for a backoff delay.
C7_NoRetryWhenUnavailable ==
  \A c \in Calls :
    (calls[c].state = "backoff" => ~Unavailable(inv[calls[c].cur]))

\* C7 (amended): an attempt made while no worker is running is rejected in
\* the same step without a write; executeCommand surfaces that failure only
\* if it was the last attempt, and otherwise waits the backoff delay and
\* makes the next attempt when the delay has elapsed.
C7_UnavailableIsRetried ==
  [][/\ \A i \in Invokes :
          (Issued(i) /\ (pythonProcess = NoProc \/ procs[pythonProcess].killed
                         \/ procs[pythonProcess].exitCode # NoCode)) =>
             /\ Unavailable(inv'[i]) /\ procs' = procs
             /\ \E c \in Calls :
                  /\ calls[c].state \in {"idle", "backoff"}
                  /\ calls'[c].attempt = calls[c].attempt + 1
                  /\ IF calls'[c].attempt = calls'[c].retries
                     THEN calls'[c].state = "threw"
                     ELSE /\ calls'[c].state = "backoff"
                          /\ calls'[c].delay = Min(Pow2(calls'[c].attempt - 1), BackoffCap)
     /\ \A c \in Calls :
          (calls[c].attempt > 0 /\ calls'[c].attempt > calls[c].attempt) =>
             /\ calls[c].state = "backoff" /\ calls[c].delay = 0
             /\ calls'[c].attempt = calls[c].attempt + 1
             /\ calls'[c].attempt <= calls[c].retries]_vars

C7_Witness ==
  \E c \in Calls :
    /\ calls[c].state = "threw" /\ calls[c].attempt = 2
    /\ \A i \in Invokes : inv[i].err = "not available"

C9_LateResponseDiscarded ==
  \A i, j \in Invokes :
    (inv[i].state = "resolved" /\ inv[i].response = j /\ j # i)
    => ~(inv[j].state = "rejected" /\ inv[j].err = "timeout")

\* C10: no step taken while the handle refers to a live worker spawns a
\* process, and the start() inside restart() then leaves handle and
\* processes as they were.
C10_StartIdempotent ==
  [][(pythonProcess # NoProc /\ ~procs[pythonProcess].killed
      /\ procs[pythonProcess].exitCode = NoCode) =>
       /\ spawned' = spawned
       /\ (restart.pc = "wait" /\ restart'.pc = "settle") =>
               /\ pythonProcess' = pythonProcess
               /\ procs' = procs
               /\ restart'.started = "already running"]_vars

C10_Witness ==
  /\ restart.started = "already running"
  /\ spawned = 1

(* ---- AppContext: polling and voice calls ---- *)
PollCommands ==
  {"get_connections", "get_pending_messages", "get_pending_calls", "get_active_calls"}

InFlight(q) == SumOver(cmds, {op \in DOMAIN cmds : op.cmd = q})

\* some call of command cmd with argument arg ends in this step
Ends(cmd, arg) ==
  \E op \in DOMAIN cmds :
    op.cmd = cmd /\ op.arg = arg /\ CopiesIn(op, cmds') < CopiesIn(op, cmds)

\* C11: at most one fetch of each query type is outstanding at any time.
C11_OneFetchPerType == \A q \in PollCommands : InFlight(q) <= 1

\* C13: the incoming-call list never holds two entries with the same call
\* identifier.
C13_NoDuplicateIncoming == Distinct(incomingCalls)

\* C14: when rejectVoiceCall(c) completes, with whatever outcome, c is not in
\* the incoming-call list.
C14_RejectAlwaysRemoves ==
  [][\A c \in CallIds :
       Ends("reject_voice_call", c) => c \notin CallIdsOf(incomingCalls')]_vars

\* C15: a successful get_active_calls fetch makes the mirror equal to the
\* fetched list and displays the call with status active if the list has
\* one, and clears the displayed call in that same step if it has none.
C15_FetchSetsDisplayedCall ==
  [][\A op \in DOMAIN cmds, result \in Responses(ActiveLists) :
       (loadActiveCalls(op, result) /\ result.success) =>
          /\ activeCalls' = result.list
          /\ activeVoiceCall' = FindActive(result.list)]_vars

\* C16: when end_voice_call returns, the displayed call is cleared if the
\* response says success and is left as it was if it does not; it is left as
\* it was when the command fails.
C16_EndClearsOnSuccessOnly ==
  [][/\ \A op \in DOMAIN cmds, result \in OkResponses :
          endVoiceCallReturns(op, result) =>
             activeVoiceCall' = IF result.success THEN NoCall ELSE activeVoiceCall
     /\ \A op \in DOMAIN cmds :
          (op.cmd = "end_voice_call" /\ executeCommandThrows(op)) =>
             activeVoiceCall' = activeVoiceCall
     /\ \A callId \in CallIds :
          endVoiceCall(callId) => activeVoiceCall' = activeVoiceCall]_vars

\* the displayed call has been cleared while the mirror still lists an
\* active call: end_voice_call has returned success
C16_Witness ==
  /\ activeVoiceCall = NoCall
  /\ FindActive(activeCalls) # NoCall

\* C17: acceptVoiceCall(c) leaves the incoming-call list alone when it is
\* called, when accept_voice_call returns success=false and when the command
\* fails; it removes c when the command returns success=true.  An identifier
\* leaves the list only by such an accept or by a reject.
C17_AcceptRemovesOnSuccessOnly ==
  [][/\ \A callId \in CallIds :
          acceptVoiceCall(callId) => incomingCalls' = incomingCalls
     /\ \A op \in DOMAIN cmds, result \in OkResponses :
          acceptVoiceCallReturns(op, result) =>
             incomingCalls' = IF result.success
                              THEN WithoutCall(incomingCalls, op.arg)
                              ELSE incomingCalls
     /\ \A op \in DOMAIN cmds :
          (op.cmd = "accept_voice_call" /\ executeCommandThrows(op)) =>
             incomingCalls' = incomingCalls
     /\ \A c \in CallIdsOf(incomingCalls) \ CallIdsOf(incomingCalls') :
          \/ Ends("reject_voice_call", c)
          \/ Ends("accept_voice_call", c) /\ c \in acceptedCalls']_vars

\* c1 was accepted and has left the list while c2 is still ringing
C17_Witness ==
  /\ "c1" \in acceptedCalls
  /\ CallIdsOf(incomingCalls) = {"c2"}

\* C18: once accept_voice_call(c) has succeeded, c stays out of the
\* incoming-call list, whatever poll results arrive afterwards.
C18_AcceptedStaysOut ==
  \A c \in acceptedCalls : c \notin CallIdsOf(incomingCalls)

(* ---- AppContext: session and messages ---- *)
\* C12: a poll command is issued only while a user is logged in, and a poll
\* interval is set only while a user is logged in.
C12_NoPollWithoutSession ==
  [][/\ \A op \in DOMAIN cmds' :
          (op.cmd \in PollCommands /\ op.phase = "sent"
             /\ CopiesIn(op, cmds') > CopiesIn(op, cmds)) => user'
     /\ (pollTimers'.sync \/ pollTimers'.voice) => user']_vars

Conversations ==
  {[kind |-> "direct", id |-> u] : u \in Usernames}
    \cup {[kind |-> "group", id |-> g] : g \in GroupIds}

\* the history the UI shows for a conversation (ChatWindow, GroupChatWindow)
HistoryOf(m, conv) ==
  History(m, IF conv.kind = "group" THEN GroupKey(conv.id) ELSE conv.id)

AddressedTo(msg, conv) ==
  IF conv.kind = "group"
  THEN msg.is_group /\ msg.group_id = conv.id
  ELSE ~msg.is_group /\ msg.peer_username = conv.id

ReceivedFor(list, conv) ==
  LET mine == SelectSeq(list, LAMBDA msg : AddressedTo(msg, conv))
  IN [i \in 1..Len(mine) |-> Received(mine[i])]

IsPrefix(a, b) == Len(a) <= Len(b) /\ SubSeq(b, 1, Len(a)) = a

\* C19: a successful get_pending_messages result appends to each
\* conversation's history exactly the envelopes addressed to it, in the
\* order returned, tagged received; so each envelope lands in one history
\* and every other history is unchanged.
C19_EnvelopeToItsConversation ==
  [][\A op \in DOMAIN cmds, result \in Responses(MessageLists) :
       (checkPendingMessages(op, result) /\ result.success) =>
          \A conv \in Conversations :
             HistoryOf(messages', conv)
               = HistoryOf(messages, conv) \o ReceivedFor(result.list, conv)]_vars

\* C20: sendMessage(peer) appends one sent entry at the end of peer's history
\* when send_message returns success and changes no history in any other
\* case; a poll only appends at the end, so an envelope delivered later is
\* placed after the sent entry.
C20_SentThenReceived ==
  [][/\ \A op \in DOMAIN cmds, result \in OkResponses :
          sendMessageReturns(op, result) =>
             IF result.success
             THEN /\ History(messages', op.arg)
                       = Append(History(messages, op.arg), SentEntry)
                  /\ \A key \in (DOMAIN messages \cup DOMAIN messages') \ {op.arg} :
                       History(messages', key) = History(messages, key)
             ELSE messages' = messages
     /\ \A op \in DOMAIN cmds :
          (op.cmd = "send_message" /\ executeCommandThrows(op)) =>
             messages' = messages
     /\ \A peerUsername \in Usernames :
          sendMessage(peerUsername) => messages' = messages
     /\ Ends("get_pending_messages", "") =>
          \A key \in DOMAIN messages :
             IsPrefix(messages[key], History(messages', key))]_vars

\* bob's history holds a sent entry followed by an envelope received from bob
C20_Witness ==
  History(messages, "bob")
    = <<SentEntry, [type |-> "received", sender |-> "bob", group_id |-> ""]>>

(* ---- AppContext: connections ---- *)
Refresh == NewCmd("get_contacts", "", 0)

\* C21: a successful get_connections fetch leaves the mirror equal to the
\* fetched list and calls for a contact-list refresh exactly when the fetched
\* list names a peer that the previously fetched list did not; the list kept
\* as previously fetched changes only by such a fetch, to the fetched list.
C21_MirrorAndRefresh ==
  [][/\ \A op \in DOMAIN cmds, result \in Responses(ConnectionLists) :
          (loadConnections(op, result) /\ result.success) =>
             /\ connections' = result.list
             /\ (CopiesIn(Refresh, cmds') > CopiesIn(Refresh, cmds))
                  <=> (\E i \in 1..Len(result.list) :
                         \A j \in 1..Len(previousConnections) :
                            result.list[i].peer_username
                              # previousConnections[j].peer_username)
             /\ previousConnections' = result.list
     /\ previousConnections' # previousConnections =>
          \E op \in DOMAIN cmds, result \in Responses(ConnectionLists) :
             loadConnections(op, result) /\ result.success]_vars

\* a fetch that named bob after one that did not: the mirror lists bob and
\* a refresh is outstanding besides the one of the initial load
C21_Witness ==
  /\ connections = <<[peer_username |-> "bob"]>>
  /\ previousConnections = connections
  /\ CopiesIn(Refresh, cmds) = 2

(* ---- business errors ---- *)
\* C23: a response line with success=false settles the calls that take it
\* as a resolution carrying that record as it was written; no call is
\* rejected by it; the executeCommand awaiting such a call returns in that
\* step, and neither waits nor makes another attempt.
C23_BusinessErrorPassesThrough ==
  [][\A p \in Procs, r \in Invokes :
       WorkerRefuses(p, r) =>
          /\ \A i \in Invokes :
               (inv[i].state = "pending" /\ inv'[i].state # "pending") =>
                  /\ inv'[i].state = "resolved"
                  /\ inv'[i].response = r /\ ~inv'[i].success
          /\ \A i \in Invokes : ~Issued(i)
          /\ \A c \in Calls :
               IF calls[c].state = "awaiting" /\ inv'[calls[c].cur].state = "resolved"
               THEN calls'[c].state = "returned"
               ELSE calls'[c] = calls[c]]_vars

\* one attempt was made, it resolved with a success=false record, and the
\* call has returned
C23_Witness ==
  \E i \in Invokes :
    /\ inv[i].state = "resolved" /\ ~inv[i].success /\ inv[i].response = i
    /\ \A j \in Invokes \ {i} : inv[j].state = "unused"
    /\ \E c \in Calls : calls[c].state = "returned"

(* ---- executeCommand: attempts and backoff ---- *)
\* the waits of the claim, in units of 1000 ms: 1000, 2000, 4000, 5000, 5000, ...
ExpectedWait(k) == IF k = 1 THEN 1 ELSE IF k = 2 THEN 2 ELSE IF k = 3 THEN 4 ELSE 5

\* C22: executeCommand makes attempts 1, 2, ... up to maxAttempts at most; it
\* returns when an attempt resolves; when attempt k < maxAttempts fails it
\* waits 1, 2, 4, 5, 5, ... units and makes attempt k+1 when that wait has
\* elapsed, not before; when attempt maxAttempts fails it throws at once.
C22_AttemptsAndBackoff ==
  [][\A c \in Calls :
       /\ \A r \in AttemptOutcomes :
            attemptSettles(c, r) =>
               IF r.state = "resolved" THEN calls'[c].state = "returned"
               ELSE IF calls[c].attempt = calls[c].retries
               THEN calls'[c].state = "threw" /\ calls'[c].delay = NoTimer
               ELSE /\ calls'[c].state = "backoff"
                    /\ calls'[c].attempt = calls[c].attempt
                    /\ calls'[c].delay = ExpectedWait(calls[c].attempt)
       /\ (calls[c].state # "awaiting" /\ calls'[c].state = "awaiting") =>
            /\ calls'[c].attempt <= calls'[c].retries
            /\ \/ calls[c].state = "idle" /\ calls'[c].attempt = 1
               \/ /\ calls[c].state = "backoff" /\ calls[c].delay = 0
                  /\ calls'[c].attempt = calls[c].attempt + 1
       /\ (calls[c].state = "backoff" /\ calls'[c].state = "backoff") =>
            calls'[c].delay \in {calls[c].delay, calls[c].delay - 1}]_vars

\* a call has thrown after five failed attempts and their four waits
C22_Witness ==
  \E c \in Calls :
    calls[c].state = "threw" /\ calls[c].retries = 5 /\ calls[c].attempt = 5

(* ---- AppContext: notifications ---- *)
NoteIds == {notifications[i].id : i \in 1..Len(notifications)}

Occurrences(list, n) == Cardinality({i \in 1..Len(list) : list[i] = n})

\* C24: no two notifications in the collection share an identifier.
C24_DistinctIdentifiers ==
  \A i, j \in 1..Len(notifications) :
    notifications[i].id = notifications[j].id => i = j

\* C25: removeNotification(id) leaves no notification with that identifier
\* and leaves the notifications with other identifiers as they were, in
\* their order; it changes nothing when no notification has the identifier,
\* and neither does the expiry of an identifier that is already gone.
C25_RemoveByIdentifier ==
  [][/\ \A id \in 0..MaxNow :
          removeNotification(id) =>
             /\ \A i \in 1..Len(notifications') : notifications'[i].id # id
             /\ SelectSeq(notifications', LAMBDA n : n.id # id)
                  = SelectSeq(notifications, LAMBDA n : n.id # id)
             /\ id \notin NoteIds => notifications' = notifications
     /\ \A t \in noteTimers :
          (expire(t) /\ t.id \notin NoteIds) => notifications' = notifications]_vars

\* the notification created at 1 was dismissed before its timeout (still
\* armed); those created at 0 and at 2 are shown, in that order
C25_Witness ==
  /\ Len(notifications) = 2
  /\ notifications[1].id = 0 /\ notifications[2].id = 2
  /\ \E t \in noteTimers : t.id = 1

C27_OneRestartWhileProbing ==
  [][/\ restartRequests' <= 1
     /\ restartRequests' > restartRequests =>
          /\ \E run \in Runs : init'[run].pc = "restart" /\ init'[run].failed >= 3
          /\ ~isInitialized]_vars

\* C28: checkAuthStatus ends with loading false and init goes on to its end;
\* unless get_current_user returned a user, the user is null afterwards; no
\* error message is set by it.
C28_AuthCheckSwallowsErrors ==
  [][\A run \in Runs, outcome \in AuthOutcomes :
       checkAuthStatusReturns(run, outcome) =>
          /\ ~loading'
          /\ init'[run].pc = "done" /\ isInitialized'
          /\ outcome # "user" => ~user'
          /\ error' => error]_vars

\* a probe whose first ping succeeded has run checkAuthStatus to its end,
\* and no user is logged in
C28_Witness ==
  /\ ~user /\ ~loading /\ ~error
  /\ \E run \in Runs : init[run].pc = "done" /\ init[run].failed = 0

(* ---- response lines and waiters ---- *)
\* the calls a step resolves
ResolvedNow == {i \in Invokes : inv[i].state = "pending" /\ inv'[i].state = "resolved"}

\* C29: a step resolves at most one pending call, and the call it resolves
\* is the oldest one pending.
C29_OneWaiterPerLine ==
  [][/\ Cardinality(ResolvedNow) <= 1
     /\ \A i \in ResolvedNow :
          \A j \in Invokes : inv[j].state = "pending" => i <= j]_vars

\* C30: no response line is dropped: the line the worker writes for a
\* request is returned by some call.  (Any request may be a
\* get_pending_messages; the envelopes of its response are in that line and
\* nowhere else once the worker has written it.)
C30_NoResponseLineDropped ==
  [][\A p \in Procs, r \in Invokes :
       WorkerRespond(p, r) => \E i \in ResolvedNow : inv'[i].response = r]_vars

(* ---- supervisor: stale timers and stale observers ---- *)
\* C31: the force-kill timer armed by a stop() signals no worker spawned
\* after that stop(): when it fires, every later worker is left as it was.
C31_ForceKillSparesLaterWorker ==
  [][\A t \in killTimers :
       (t.left = 0 /\ t \notin killTimers') =>
          \A p \in Procs : p > t.armedFor => procs'[p] = procs[p]]_vars

\* C32: the close or error event of a worker that has been replaced leaves
\* the handle referring to the replacement.
C32_StaleEventKeepsHandle ==
  [][\A p \in Procs :
       (/\ \/ procs'[p].closed /\ ~procs[p].closed
           \/ procs'[p].errored /\ ~procs[p].errored
        /\ Running(pythonProcess) /\ pythonProcess > p)
       => pythonProcess' = pythonProcess]_vars

(* ---- executeCommand: writes of one call ---- *)
\* C33: one call writes its command to the worker at most once: after an
\* attempt that was written and timed out, the call's next attempt writes
\* nothing.  (sendMessage and sendGroupMessage call executeCommand with the
\* default number of attempts; any call with more than one attempt takes
\* the same path.)
C33_SendWrittenAtMostOnce ==
  [][\A c \in Calls :
       (/\ calls[c].state = "backoff"
        /\ inv[calls[c].cur].state = "rejected" /\ inv[calls[c].cur].err = "timeout")
       => ~(/\ calls'[c].state = "awaiting"
            /\ inv'[calls'[c].cur].state = "pending"
            /\ calls'[c].cur \in procs'[inv'[calls'[c].cur].proc].inbox)]_vars

(* ---- framing ---- *)
\* what responseHandler makes of the bytes when they come as one chunk
OneChunk(bytes) == responseHandler([FreshInvoke EXCEPT !.state = "pending"], toString(bytes))

\* C34: whatever the chunks the bytes arrived in, a call is resolved
\* exactly if the bytes handed to it hold a complete decodable line, with
\* the record it would have got from one chunk.
C34_ChunkingIsTransparent ==
  \A i \in Invokes :
    inv[i].state \in {"pending", "resolved"} =>
      LET one == OneChunk(seen[i])
      IN  /\ one.state = inv[i].state
          /\ one.response = inv[i].response
          /\ one.success = inv[i].success
          /\ one.text = inv[i].text

\* a complete line that is blank, does not begin a record, or does not
\* end as one
Junk(line) == line = <<>> \/ Head(line) # "{" \/ line[Len(line)] # "}"

\* the lines that a chunk completes for a call, given what the call retained
CompletedBy(i, chunk) == CompleteLines(inv[i].buffer \o toString(chunk))

C36_NothingAppliedAfterLogout ==
  [][(~user /\ ~user') =>
       /\ connections' = connections
       /\ messages' = messages
       /\ incomingCalls' = incomingCalls
       /\ activeVoiceCall' = activeVoiceCall]_vars

\* C37: the step that ends the session leaves the connection mirror, the
\* message history, the incoming-call list, the active-call mirror and the
\* displayed call empty.
C37_LogoutResetsSessionState ==
  [][(user /\ ~user') =>
       /\ connections' = <<>>
       /\ messages' = NoMessages
       /\ incomingCalls' = <<>>
       /\ activeCalls' = <<>>
       /\ activeVoiceCall' = NoCall]_vars

(* ---- AppContext: the displayed call, eventually ---- *)
\* every get_active_calls fetch succeeds and reports no call with status
\* active
QuietFetches ==
  /\ \A op \in DOMAIN cmds, result \in Responses(ActiveLists) :
       loadActiveCalls(op, result) => result.success /\ FindActive(result.list) = NoCall
  /\ \A op \in DOMAIN cmds :
       op.cmd = "get_active_calls" => ~executeCommandThrows(op)

\* C38: if from some point on every get_active_calls fetch succeeds and
\* reports no active call, the displayed call is eventually cleared, and
\* stays so.
C38_DisplayedCallEventuallyCleared ==
  <>[][QuietFetches]_vars => <>[](activeVoiceCall = NoCall)

(* ---- AppContext: a poll fetch that fails ---- *)
Failure == [success |-> FALSE, list |-> <<>>]

\* the fetch of op ends without a result: executeCommand throws (its
\* attempts were rejected or timed out) or returns success=false
FetchFails(op) ==
  \/ op.cmd \in PollCommands /\ executeCommandThrows(op)
  \/ loadConnections(op, Failure)
  \/ checkPendingMessages(op, Failure)
  \/ checkPendingCalls(op, Failure)
  \/ loadActiveCalls(op, Failure)

\* C39: a poll fetch that fails changes none of the connection mirror, the
\* previous-peer list, the message history, the incoming-call list, the
\* active-call mirror and the displayed call; it sets no error, ends the
\* call (nothing is left outstanding or retried by the handler) and leaves
\* the session and both poll intervals as they were.
C39_FailedFetchChangesNothing ==
  [][\A op \in DOMAIN cmds :
       FetchFails(op) =>
          /\ connections' = connections
          /\ previousConnections' = previousConnections
          /\ messages' = messages
          /\ incomingCalls' = incomingCalls
          /\ activeCalls' = activeCalls
          /\ activeVoiceCall' = activeVoiceCall
          /\ error' = error
          /\ cmds' = Settle(cmds, op)
          /\ user' = user /\ pollTimers' = pollTimers]_vars

\* every piece of fetched state is non-empty, the intervals are set, and
\* the fetches of a tick are outstanding
C39_Witness ==
  /\ connections # <<>> /\ previousConnections # <<>>
  /\ messages # NoMessages /\ incomingCalls # <<>>
  /\ activeCalls # <<>> /\ activeVoiceCall # NoCall
  /\ pollTimers.sync /\ pollTimers.voice
  /\ \E op \in DOMAIN cmds : op.cmd = "get_connections"
  /\ \E op \in DOMAIN cmds : op.cmd = "get_pending_messages"

(* ---- startup: termination ---- *)
\* C40: the init effect comes to its end: the application is eventually
\* marked initialized, whatever the worker does.
C40_InitializationTerminates == <>isInitialized

=============================================================================
